---- MODULE Spec2Model ----
(***************************************************************************)
(* A model of anima/ui/version_creator.py: the version creator dialog      *)
(* (MainDialog) and its previous-versions table (VersionsTableWidget).     *)
(*                                                                         *)
(* The database is the sequence `committed` of Version rows (a version's   *)
(* id is its index).  Every handler of the dialog is one action; the       *)
(* answers the user gives to the message boxes and input dialogs a handler *)
(* pops up, and the outcomes of the calls into the external environment,   *)
(* are the \E-bound inputs of that action.  `last` records what the most   *)
(* recent handler did (message shown, environment calls made) and `pre`    *)
(* the database as it was when that handler started.                       *)
(*                                                                         *)
(* Strings the code inspects (take names, representation names, paths)     *)
(* are sequences of one-character strings / of path components, so that    *)
(* `in`, lower(), ilike and os.path.normpath are computed, not assumed.    *)
(***************************************************************************)
EXTENDS Integers, Sequences, FiniteSets, TLC

VARIABLES
    mode,                  \* MainDialog.mode: 0 Read-Write, 1 Read-Only
    environment,           \* MainDialog.environment: NoEnv or a host environment
    logged_in_user,        \* what get_logged_in_user() returns
    committed,             \* the Version table of the database
    thumbnails,            \* the tasks that have a thumbnail in the database
    selected,              \* the entity selected in tasks_treeView, or NoSelection
    take_names,            \* takes_listWidget.take_names
    current_take_name,     \* takes_listWidget.current_take_name ('' is <<>>)
    repr_as_separate_takes,\* repr_as_separate_takes_checkBox.isChecked()
    show_published_only,   \* show_published_only_checkBox.isChecked()
    version_count,         \* version_count_spinBox.value()
    table,                 \* previous_versions_tableWidget: versions, rowCount, currentRow
    clipboard,             \* the text on the clipboard (a path), or NoText
    chosen_version,        \* MainDialog.chosen_version (0 is None)
    closed,                \* the dialog has been closed
    shown,                 \* the dialog has been shown
    environment_comboBox,  \* the current index of environment_comboBox (from 1)
    steps,                 \* how many handlers have run
    pre,                   \* the database when the last handler started
    last                   \* what the last handler did

vars == <<mode, environment, logged_in_user, committed, thumbnails, selected,
          take_names, current_take_name, repr_as_separate_takes,
          show_published_only, version_count, table, clipboard,
          chosen_version, closed, shown,
          environment_comboBox, steps, pre, last>>

-----------------------------------------------------------------------------
(* Bounds of the model *)

MaxSteps == 3        \* the number of handler runs of a behaviour
MaxCount == 2        \* the largest value given to version_count_spinBox

-----------------------------------------------------------------------------
(* Strings *)

Main == <<"M", "a", "i", "n">>          \* stalker defaults.version_take_name
main_lower == <<"m", "a", "i", "n">>
GPU == <<"G", "P", "U">>
Base == <<"B", "a", "s", "e">>          \* Representation.base_repr_name
Cancel == <<"C", "a", "n", "c", "e", "l">>
repr_separator == "@"                   \* Representation.repr_separator
Main_GPU == Main \o <<repr_separator>> \o GPU
alt == <<"a", "l", "t">>

Lower(c) ==
    CASE c = "M" -> "m" [] c = "G" -> "g" [] c = "P" -> "p" [] c = "U" -> "u"
      [] c = "B" -> "b" [] c = "C" -> "c" [] OTHER -> c

\* a lower() that leaves the case as it is
lower_keeps_case(s) == s

lower(s) == [i \in 1..Len(s) |-> Lower(s[i])]

\* the characters in code-point order
Alphabet == <<"@", "B", "C", "G", "M", "P", "U", "a", "b", "c", "e", "g", "i",
              "l", "m", "n", "p", "s", "t", "u">>

Ord(c) == CHOOSE k \in 1..Len(Alphabet) : Alphabet[k] = c

\* a < b for Python strings
RECURSIVE StrLess(_, _)
StrLess(a, b) ==
    IF b = <<>> THEN FALSE
    ELSE IF a = <<>> THEN TRUE
    ELSE IF Head(a) # Head(b) THEN Ord(Head(a)) < Ord(Head(b))
    ELSE StrLess(Tail(a), Tail(b))

\* `c in s` for a one-character c
HasChar(s, c) == \E i \in 1..Len(s) : s[i] = c

\* SQL: s ILIKE p || '%'
ILikePrefix(s, p) ==
    /\ Len(s) >= Len(p)
    /\ lower(SubSeq(s, 1, Len(p))) = lower(p)

\* SQL: s ILIKE '%' || p || '%'
ILikeContains(s, p) ==
    \E k \in 0..(Len(s) - Len(p)) :
        lower(SubSeq(s, k + 1, k + Len(p))) = lower(p)

-----------------------------------------------------------------------------
(* The production database the dialog works on (stalker entities).  Users, *)
(* groups, the task tree and who is responsible for what are not changed   *)
(* by the dialog; they are a fixed fixture in which every kind of user     *)
(* occurs.                                                                 *)

NoEnv == "None"
HostEnv == "host"
NoSelection == "none"
NoText == <<"<none>">>

\* the artist has some tasks, the supervisor is in a power-user group
Users == {"artist", "supervisor"}

\* get_logged_in_user() found nobody
NoUser == "None"

Projects == {"proj"}
Tasks == {"cont", "leaf1", "leaf2", "leaf3"}
Entities == Projects \cup Tasks

is_leaf(t) == t \in {"leaf1", "leaf2", "leaf3"}
is_container(t) == t = "cont"

\* Task.responsible and Task.resources
responsible(t) == IF t = "leaf1" THEN {"artist"} ELSE {}
resources(t) == IF t = "leaf2" THEN {"artist"} ELSE {}

power_users_group_names == {"Power Users"}
Groups == {"Power Users", "Artists"}
groups(u) == IF u = "supervisor" THEN {"Power Users", "Artists"} ELSE {"Artists"}

\* the texts the user types as a description
Descriptions == {"fix"}

RepoRoot == <<"mnt", "..", "srv", ".", "">>

VersionNames == <<"v001", "v002", "v003", "v004", "v005", "v006", "v007", "v008">>

\* Version.absolute_full_path: repository root / task / take / version file
absolute_full_path(v) ==
    RepoRoot \o <<v.task>> \o v.take_name \o <<VersionNames[v.version_number]>>

NewVersion(task, take, number, user, description, published, inputs, env) ==
    [task |-> task, take_name |-> take, version_number |-> number,
     is_published |-> published, created_by |-> user, updated_by |-> user,
     description |-> description, created_with |-> env, inputs |-> inputs]

InitialVersions ==
    << NewVersion("leaf1", Main, 1, "other", "", TRUE, {}, HostEnv),
       NewVersion("leaf1", Main, 2, "other", "", FALSE, {}, HostEnv),
       NewVersion("leaf1", Main_GPU, 1, "other", "", FALSE, {}, HostEnv),
       NewVersion("leaf2", Main, 1, "other", "", TRUE, {1, 6}, HostEnv),
       NewVersion("leaf2", Main, 2, "other", "", FALSE, {}, HostEnv),
       NewVersion("leaf3", Main, 1, "other", "", TRUE, {}, HostEnv),
       NewVersion("leaf3", Main, 2, "other", "", FALSE, {}, HostEnv),
       NewVersion("leaf3", Main, 3, "other", "", TRUE, {}, HostEnv),
       NewVersion("leaf2", alt, 1, "other", "", FALSE, {}, "Photoshop") >>

InitialThumbnails == {"leaf1"}

-----------------------------------------------------------------------------
(* Library functions the handlers use *)

RECURSIVE normpath_from(_, _, _)
normpath_from(p, i, acc) ==
    IF i > Len(p) THEN acc
    ELSE IF p[i] = "" \/ p[i] = "." THEN normpath_from(p, i + 1, acc)
    ELSE IF p[i] = ".."
         THEN normpath_from(p, i + 1,
                            IF Len(acc) > 0 THEN SubSeq(acc, 1, Len(acc) - 1)
                            ELSE acc)
    ELSE normpath_from(p, i + 1, Append(acc, p[i]))

\* a normpath that returns the path as it was given
normpath_unchanged(p) == p

\* os.path.normpath of an absolute path given as its components
normpath(p) == normpath_from(p, 1, <<>>)

\* a reverse that leaves the list in descending order
Reverse_not(s) == s

Reverse(s) == [i \in 1..Len(s) |-> s[Len(s) + 1 - i]]

Min(a, b) == IF a < b THEN a ELSE b

\* DBSession.commit(): the rows of the objects in the session are written,
\* a new object gets a new row
DBSession_commit(db, mem, session) ==
    LET n == IF \E i \in session : i > Len(db) THEN Len(mem) ELSE Len(db)
    IN  [i \in 1..n |-> IF i \in session THEN mem[i] ELSE db[i]]

\* DBSession.rollback(): the session forgets what was added to it
DBSession_rollback(session) == {}

\* DBSession.add(obj)
DBSession_add(session, i) == session \cup {i}

-----------------------------------------------------------------------------
(* VersionsTableWidget *)

\* QTableWidget.clear() drops the items and the current index and keeps the
\* dimensions; versions is reset
VersionsTableWidget_clear(t) ==
    [versions |-> <<>>, rowCount |-> t.rowCount, currentRow |-> -1]

VersionsTableWidget_update_content(t, versions) ==
    [versions |-> versions, rowCount |-> Len(versions), currentRow |-> -1]

\* self.versions[index] with Python's indexing: a negative index counts from
\* the end, an index outside the list raises IndexError (None, here 0)
current_version(t) ==
    LET index == t.currentRow
        n == Len(t.versions)
    IN  IF index >= 0 /\ index < n THEN t.versions[index + 1]
        ELSE IF index < 0 /\ -index <= n THEN t.versions[n + index + 1]
        ELSE 0

-----------------------------------------------------------------------------
(* MainDialog: queries *)

\* get_task(): the entity of the selected tree item, or None
get_task == selected

is_power_user(user) ==
    LET power_users_groups == {g \in Groups : g \in power_users_group_names}
    IN  \E group \in power_users_groups : group \in groups(user)

\* the ids matching the query of update_previous_versions_tableWidget
VersionsQuery(db, task, take_name, published_only) ==
    {i \in DOMAIN db :
        /\ db[i].task = task
        /\ db[i].take_name = take_name
        /\ (published_only => db[i].is_published = TRUE)}

\* order_by(Version.version_number.desc())
RECURSIVE OrderByVersionNumberDesc(_, _)
OrderByVersionNumberDesc(db, ids) ==
    IF ids = {} THEN <<>>
    ELSE LET top == CHOOSE i \in ids :
                        \A j \in ids : db[j].version_number <= db[i].version_number
         IN  <<top>> \o OrderByVersionNumberDesc(db, ids \ {top})

\* .limit(count)
Limit(s, count) == SubSeq(s, 1, Min(count, Len(s)))

update_previous_versions_tableWidget(t, db, task, take_name, published_only, count) ==
    LET cleared == VersionsTableWidget_clear(t)
    IN  IF task = NoSelection \/ task \notin Tasks THEN cleared
        ELSE IF is_container(task) THEN cleared
        ELSE IF take_name = <<>> THEN cleared
        ELSE LET query == VersionsQuery(db, task, take_name, published_only)
                 versions == Reverse(Limit(OrderByVersionNumberDesc(db, query), count))
             IN  VersionsTableWidget_update_content(cleared, versions)

\* the table after a refresh in the current state of the widgets
RefreshedTable(db) ==
    update_previous_versions_tableWidget(
        table, db, selected, current_take_name, show_published_only, version_count)

-----------------------------------------------------------------------------
(* TakesListWidget (anima.ui.models) *)

Range(s) == {s[i] : i \in DOMAIN s}

Without(s, x) == SelectSeq(s, LAMBDA y : y # x)

\* the take_names setter: the default take name is put first, the first item
\* is made current
TakesListWidget_set_take_names(names) ==
    [take_names |-> <<Main>> \o Without(names, Main),
     current_take_name |-> Main]

\* the sequences holding the elements of S once each, in an order that key
\* (a strict order) does not contradict: what a stable sort can return
SortedBy(S, Less(_, _)) ==
    {s \in [1..Cardinality(S) -> S] :
        /\ \A x \in S : \E i \in DOMAIN s : s[i] = x
        /\ \A i, j \in DOMAIN s : i < j => ~Less(s[j], s[i])}

-----------------------------------------------------------------------------
(* MainDialog: what a handler reports *)

\* the handler run, the version it was about (0: none), the message boxes it
\* showed in order, its calls into the environment in order, and what
\* os.path.exists answered if it was asked
Report(op, v, msgs, calls) ==
    [op |-> op, v |-> v, msgs |-> msgs, calls |-> calls, exists |-> "n/a"]

\* a handler no claim looks at has run
Quiet == Report("ui", 0, <<>>, <<>>)

\* one call into the environment: the operation, the environment called and
\* the Version handed to it
EnvCall(op, env, version) == [op |-> op, env |-> env, version |-> version]

env_names == <<"Photoshop", "ZBrush">>

\* environment.representations of the host environment
representations == <<Base, GPU>>

TakeInputs == {Main, Main_GPU}

-----------------------------------------------------------------------------
(* MainDialog: the tasks tree and the takes list *)

\* the take names tasks_treeView_changed hands to the takes list for a task
\* that is no Project: the sorts a stable sort by lower() can return
TakesOf(db, task, separate) ==
    IF is_leaf(task)
    THEN LET distinct == {db[i].take_name : i \in {j \in DOMAIN db : db[j].task = task}}
             filtered == IF ~separate
                         THEN {take \in distinct : ~HasChar(take, repr_separator)}
                         ELSE distinct
         IN  SortedBy(filtered, LAMBDA a, b : StrLess(lower(a), lower(b)))
    ELSE {<<>>}

\* the call `self.takes_listWidget.take_names = takes`
SetTakeNames(takes) == [op |-> "takes_listWidget.take_names", takes |-> takes]

\* tasks_treeView_changed with the entity `task` selected, on database db,
\* when `takes` is what the query and the sort gave; a change of the current
\* take runs update_previous_versions_tableWidget
tasks_treeView_changed_with(db, task, takes) ==
    IF task = NoSelection
    THEN UNCHANGED <<take_names, current_take_name, table>>
    ELSE IF task \in Projects
    THEN /\ take_names' = <<>>
         /\ current_take_name' = <<>>
         /\ table' = IF current_take_name # <<>>
                     THEN update_previous_versions_tableWidget(
                              table, db, task, <<>>, show_published_only, version_count)
                     ELSE table
    ELSE LET w == TakesListWidget_set_take_names(takes)
         IN  /\ take_names' = w.take_names
             /\ current_take_name' = w.current_take_name
             /\ table' = update_previous_versions_tableWidget(
                             table, db, task, w.current_take_name,
                             show_published_only, version_count)

\* the values `takes` can have at the end of tasks_treeView_changed
TakesHanded(db, task, separate) ==
    IF task = NoSelection \/ task \in Projects THEN {<<>>}
    ELSE TakesOf(db, task, separate)

tasks_treeView_changed(db, task, separate) ==
    \E takes \in TakesHanded(db, task, separate) :
        tasks_treeView_changed_with(db, task, takes)

\* what the handler tasks_treeView_changed reports: the take names it handed
\* to the takes list, if it came that far
TreeViewReport(task, takes) ==
    Report("tasks_treeView_changed", 0, <<>>,
           IF task = NoSelection \/ task \in Projects THEN <<>>
           ELSE <<SetTakeNames(takes)>>)

\* the bound of the model: a behaviour runs at most MaxSteps handlers
Step ==
    /\ steps < MaxSteps
    /\ steps' = steps + 1

\* the dialog is on the screen: it was shown and has not been closed
isVisible == shown /\ ~closed

Frame ==
    Step /\ UNCHANGED <<mode, environment, logged_in_user, environment_comboBox, shown>>

SelectTreeItem(e) ==
    /\ isVisible
    /\ e # selected
    /\ selected' = e
    /\ \E takes \in TakesHanded(committed, e, repr_as_separate_takes) :
          /\ tasks_treeView_changed_with(committed, e, takes)
          /\ last' = TreeViewReport(e, takes)
    /\ pre' = committed
    /\ Frame
    /\ UNCHANGED <<committed, thumbnails, repr_as_separate_takes, show_published_only,
                   version_count, clipboard, chosen_version, closed>>

repr_as_separate_takes_checkBox_stateChanged ==
    /\ isVisible
    /\ repr_as_separate_takes' = ~repr_as_separate_takes
    /\ \E takes \in TakesHanded(committed, selected, repr_as_separate_takes') :
          /\ tasks_treeView_changed_with(committed, selected, takes)
          /\ last' = TreeViewReport(selected, takes)
    /\ pre' = committed
    /\ Frame
    /\ UNCHANGED <<committed, thumbnails, selected, show_published_only,
                   version_count, clipboard, chosen_version, closed>>

takes_listWidget_changed(take) ==
    /\ isVisible
    /\ take \in Range(take_names)
    /\ take # current_take_name
    /\ current_take_name' = take
    /\ table' = update_previous_versions_tableWidget(
                    table, committed, get_task, take, show_published_only, version_count)
    /\ pre' = committed
    /\ last' = Report("update_previous_versions_tableWidget", 0, <<>>, <<>>)
    /\ Frame
    /\ UNCHANGED <<committed, thumbnails, selected, take_names, repr_as_separate_takes,
                   show_published_only, version_count, clipboard, chosen_version, closed>>

show_published_only_checkBox_stateChanged ==
    /\ isVisible
    /\ show_published_only' = ~show_published_only
    /\ table' = update_previous_versions_tableWidget(
                    table, committed, get_task, current_take_name,
                    show_published_only', version_count)
    /\ pre' = committed
    /\ last' = Report("update_previous_versions_tableWidget", 0, <<>>, <<>>)
    /\ Frame
    /\ UNCHANGED <<committed, thumbnails, selected, take_names, current_take_name,
                   repr_as_separate_takes, version_count, clipboard, chosen_version,
                   closed>>

version_count_spinBox_valueChanged(count) ==
    /\ isVisible
    /\ count # version_count
    /\ version_count' = count
    /\ table' = update_previous_versions_tableWidget(
                    table, committed, get_task, current_take_name,
                    show_published_only, count)
    /\ pre' = committed
    /\ last' = Report("update_previous_versions_tableWidget", 0, <<>>, <<>>)
    /\ Frame
    /\ UNCHANGED <<committed, thumbnails, selected, take_names, current_take_name,
                   repr_as_separate_takes, show_published_only, clipboard,
                   chosen_version, closed>>

\* the user makes a row of the previous-versions table the current one
SelectRow(row) ==
    /\ isVisible
    /\ row \in 0..(table.rowCount - 1)
    /\ row # table.currentRow
    /\ table' = [table EXCEPT !.currentRow = row]
    /\ pre' = committed
    /\ last' = Quiet
    /\ Frame
    /\ UNCHANGED <<committed, thumbnails, selected, take_names, current_take_name,
                   repr_as_separate_takes, show_published_only, version_count,
                   clipboard, chosen_version, closed>>

-----------------------------------------------------------------------------
(* MainDialog: the context menu of the previous-versions table *)

\* a Publish check that lets the resources of the task through as well
MayPublish_resources_too(user, task) ==
    user \in responsible(task) \/ user \in resources(task) \/ is_power_user(user)

\* may `user` publish a version of `task`?
MayPublish(user, task) ==
    user \in responsible(task) \/ is_power_user(user)

\* a usage query that looks at the inputs of the version itself
versions_used_by_this_version(db, version) ==
    db[version].inputs

\* Version.query.filter(Version.inputs.contains(version)).all()
versions_using_this_versions(db, version) ==
    {i \in DOMAIN db : version \in db[i].inputs}

\* an Un-Publish check that forgets the resources of the task
MayUnPublish_no_resources(user, task) ==
    user \in responsible(task) \/ is_power_user(user)

\* may `user` un-publish a version of `task` that no version uses?
MayUnPublish(user, task) ==
    \/ user \in responsible(task)
    \/ user \in resources(task)
    \/ is_power_user(user)

\* the rows of the table that hold an item: itemAt(position) is not None
ItemRows == 1..Len(table.versions)

\* the database after version.<field> = ...; DBSession.add(version);
\* DBSession.commit()
SetPublished(db, version, published, user) ==
    LET mem == [db EXCEPT ![version].is_published = published,
                          ![version].updated_by = user]
    IN  DBSession_commit(db, mem, DBSession_add({}, version))

SetDescription(db, version, description) ==
    LET mem == [db EXCEPT ![version].description = description]
    IN  DBSession_commit(db, mem, DBSession_add({}, version))

UiFrame == UNCHANGED <<mode, environment, logged_in_user, environment_comboBox,
                       shown, thumbnails, selected,
                       take_names, current_take_name, repr_as_separate_takes,
                       show_published_only, version_count, clipboard,
                       chosen_version, closed>>

\* the menu entry 'Publish' is chosen on the row of `version`
Publish(row) ==
    /\ isVisible
    /\ row \in ItemRows
    /\ LET version == table.versions[row]
           task == committed[version].task
       IN  /\ ~committed[version].is_published
           /\ IF ~MayPublish(logged_in_user, task)
              THEN /\ last' = Report("Publish", version,
                                     <<"You are not a Responsible of this task">>, <<>>)
                   /\ UNCHANGED <<committed, table>>
              ELSE /\ committed' = SetPublished(committed, version, TRUE, logged_in_user)
                   /\ table' = RefreshedTable(committed')
                   /\ last' = Report("Publish", version, <<>>, <<>>)
    /\ pre' = committed
    /\ Step
    /\ UiFrame

\* the menu entry 'Un-Publish' is chosen on the row of `version`
UnPublish(row) ==
    /\ isVisible
    /\ row \in ItemRows
    /\ LET version == table.versions[row]
           task == committed[version].task
       IN  /\ committed[version].is_published
           /\ IF versions_using_this_versions(committed, version) # {}
              THEN /\ last' = Report("Un-Publish", version,
                                     <<"This version is referenced">>, <<>>)
                   /\ UNCHANGED <<committed, table>>
              ELSE IF ~MayUnPublish(logged_in_user, task)
              THEN /\ last' = Report("Un-Publish", version,
                                     <<"You are not a Resource/Responsible of this task">>,
                                     <<>>)
                   /\ UNCHANGED <<committed, table>>
              ELSE /\ committed' = SetPublished(committed, version, FALSE, logged_in_user)
                   /\ table' = RefreshedTable(committed')
                   /\ last' = Report("Un-Publish", version, <<>>, <<>>)
    /\ pre' = committed
    /\ Step
    /\ UiFrame

\* the menu entry 'Change Description...' is chosen; it is in the menu in
\* Read-Write mode only
ChangeDescription(row, ok, new_description) ==
    /\ isVisible
    /\ mode = 0
    /\ row \in ItemRows
    /\ LET version == table.versions[row]
       IN  IF ok
           THEN /\ committed' = SetDescription(committed, version, new_description)
                /\ table' = RefreshedTable(committed')
                /\ last' = Report("Change Description...", version, <<>>, <<>>)
           ELSE /\ last' = Report("Change Description...", version, <<>>, <<>>)
                /\ UNCHANGED <<committed, table>>
    /\ pre' = committed
    /\ Step
    /\ UiFrame

-----------------------------------------------------------------------------
(* MainDialog: the buttons *)

\* the signals _setup_signals and _set_defaults connect to slots:
\* <<sender, signal, slot>>
Connections ==
    {<<"export_as_pushButton", "clicked()", "export_as_pushButton_clicked">>,
     <<"save_as_pushButton", "clicked()", "save_as_pushButton_clicked">>,
     <<"open_pushButton", "clicked()", "open_pushButton_clicked">>,
     <<"chose_pushButton", "cliched()", "chose_pushButton_clicked">>,
     <<"reference_pushButton", "clicked()", "reference_pushButton_clicked">>,
     <<"clear_thumbnail_pushButton", "clicked()", "clear_thumbnail_push_button_clicked">>,
     <<"close_pushButton", "clicked()", "close">>,
     <<"find_from_path_pushButton", "clicked()", "find_from_path_pushButton_clicked">>,
     <<"previous_versions_tableWidget", "cellDoubleClicked(int,int)",
       IF mode # 0 THEN "chose_pushButton_clicked" ELSE "open_pushButton_clicked">>}

\* the slots run when `sender` emits `signal`
Slots(sender, signal) == {c[3] : c \in {d \in Connections : d[1] = sender /\ d[2] = signal}}

\* the widgets _set_defaults hides
Hidden ==
    (IF environment = NoEnv
     THEN {"export_as_pushButton", "reference_pushButton", "import_pushButton"}
     ELSE {"environment_comboBox"})
    \cup
    (IF mode # 0
     THEN {"add_take_toolButton", "export_as_pushButton", "save_as_pushButton",
           "open_pushButton", "reference_pushButton", "import_pushButton",
           "upload_thumbnail_pushButton"}
     ELSE {"chose_pushButton"})

\* the user can click `button` and the click runs `slot`
Clicked(button, slot) ==
    /\ isVisible
    /\ button \notin Hidden
    /\ slot \in Slots(button, "clicked()")

\* chose_pushButton_clicked: what it assigns to chosen_version and closed
chose_pushButton_clicked ==
    /\ chosen_version' = current_version(table)
    /\ closed' = (chosen_version' # 0)

\* the user clicks the 'Choose' button: the slots connected to its clicked()
\* signal run
chose_pushButton_click ==
    /\ isVisible
    /\ "chose_pushButton" \notin Hidden
    /\ IF "chose_pushButton_clicked" \in Slots("chose_pushButton", "clicked()")
       THEN chose_pushButton_clicked
       ELSE UNCHANGED <<chosen_version, closed>>
    /\ pre' = committed
    /\ last' = Report("click chose_pushButton", current_version(table), <<>>, <<>>)
    /\ Frame
    /\ UNCHANGED <<committed, thumbnails, selected, take_names, current_take_name,
                   repr_as_separate_takes, show_published_only, version_count, table,
                   clipboard>>

\* the user double-clicks a cell of the previous-versions table in Read-Only
\* mode: the cell becomes the current one and chose_pushButton_clicked runs
cellDoubleClicked_chose(row) ==
    /\ isVisible
    /\ row \in 0..(table.rowCount - 1)
    /\ "chose_pushButton_clicked"
           \in Slots("previous_versions_tableWidget", "cellDoubleClicked(int,int)")
    /\ table' = [table EXCEPT !.currentRow = row]
    /\ chosen_version' = current_version(table')
    /\ closed' = (chosen_version' # 0)
    /\ pre' = committed
    /\ last' = Report("cellDoubleClicked", chosen_version', <<>>, <<>>)
    /\ Frame
    /\ UNCHANGED <<committed, thumbnails, selected, take_names, current_take_name,
                   repr_as_separate_takes, show_published_only, version_count,
                   clipboard>>

close ==
    /\ Clicked("close_pushButton", "close")
    /\ closed' = TRUE
    /\ pre' = committed
    /\ last' = Quiet
    /\ Frame
    /\ UNCHANGED <<committed, thumbnails, selected, take_names, current_take_name,
                   repr_as_separate_takes, show_published_only, version_count, table,
                   clipboard, chosen_version>>

clear_thumbnail_push_button_clicked(answer) ==
    /\ Clicked("clear_thumbnail_pushButton", "clear_thumbnail_push_button_clicked")
    /\ get_task # NoSelection
    /\ get_task \in thumbnails
    /\ thumbnails' = IF answer = "Yes" THEN thumbnails \ {get_task} ELSE thumbnails
    /\ pre' = committed
    /\ last' = Report("clear_thumbnail_push_button_clicked", 0, <<"Delete Thumbnail?">>, <<>>)
    /\ Frame
    /\ UNCHANGED <<committed, selected, take_names, current_take_name,
                   repr_as_separate_takes, show_published_only, version_count, table,
                   clipboard, chosen_version, closed>>

-----------------------------------------------------------------------------
(* MainDialog: Save As and Export As *)

Max(S) == CHOOSE x \in S : \A y \in S : y <= x

\* stalker gives a new Version the next version number of its task and take
next_version_number(db, task, take_name) ==
    Max({0} \cup {db[i].version_number :
                    i \in {j \in DOMAIN db : db[j].task = task
                                             /\ db[j].take_name = take_name}})
    + 1

\* a leaf check that is never alarmed
NotALeaf_never(task) == FALSE

\* the check `not new_version.task.is_leaf` of Save As and Export As
NotALeaf(task) == ~is_leaf(task)

\* how get_new_version() ends: it returns None when no Task is selected, the
\* Version constructor raises ValueError for an empty take name, else it
\* returns the new Version
get_new_version_ends ==
    IF get_task = NoSelection \/ get_task \notin Tasks THEN "None"
    ELSE IF current_take_name = <<>> THEN "ValueError"
    ELSE "Version"

\* the Version get_new_version() returns
get_new_version(db, description, published) ==
    LET task == get_task
        take_name == current_take_name
    IN  [NewVersion(task, take_name, next_version_number(db, task, take_name),
                    logged_in_user, description, FALSE, {}, "")
            EXCEPT !.is_published = published]

\* what environment.save_as / export_as does to the Version handed to it:
\* the environment notes itself as the creator
SavedBy(version, env) == [version EXCEPT !.created_with = env]

\* a Save As that adds the new Version whether the file exists or not
SessionAfterSaveAs_always_add(exists, id) ==
    DBSession_add({}, id)

\* the session after the check that the new version points to a file: the
\* new version (id) is added if the file exists, else the session is rolled back
SessionAfterSaveAs(exists, id) ==
    IF exists THEN DBSession_add({}, id) ELSE DBSession_rollback({})

\* the part of save_as_pushButton_clicked after environment.save_as has
\* returned: the clipboard, the database, and the end of the dialog
AfterSaveAs(new_version, is_external_env, exists, asked, calls) ==
    LET v_path == normpath(absolute_full_path(new_version))
        id == Len(committed) + 1
        mem == Append(committed, new_version)
        session == SessionAfterSaveAs(exists, id)
    IN  /\ clipboard' = IF is_external_env THEN v_path ELSE clipboard
        /\ committed' = DBSession_commit(committed, mem, session)
        /\ last' = [Report("save_as_pushButton_clicked", 0,
                           asked
                           \o (IF is_external_env THEN <<"Path Generated">> ELSE <<>>)
                           \o (IF exists THEN <<>> ELSE <<"Something went wrong">>),
                           calls)
                       EXCEPT !.exists = IF exists THEN "yes" ELSE "no"]
        /\ IF is_external_env
           THEN /\ tasks_treeView_changed(committed', selected, repr_as_separate_takes)
                /\ closed' = closed
           ELSE /\ closed' = TRUE
                /\ UNCHANGED <<take_names, current_take_name, table>>

\* save_as_pushButton_clicked stops early: the messages shown, the calls made
SaveAsQuits(msgs, calls) ==
    /\ last' = Report("save_as_pushButton_clicked", 0, msgs, calls)
    /\ UNCHANGED <<committed, clipboard, closed, take_names, current_take_name, table>>

\* environment.save_as(new_version) and what follows it.
\* raised: save_as raises RuntimeError or PublishError;
\* exists: the file of the new version exists afterwards
\* before: the calls made before it
CallSaveAs(new_version, env, is_external_env, asked, before) ==
    LET calls == before \o <<EnvCall("save_as", env, new_version)>>
    IN  \E raised \in BOOLEAN :
           IF raised THEN SaveAsQuits(asked \o <<"RuntimeError">>, calls)
           ELSE \E exists \in BOOLEAN :
                   AfterSaveAs(SavedBy(new_version, env), is_external_env, exists,
                               asked, calls)

\* the versions environment.get_current_version() returns (0: None)
OpenVersions == {0, 1}

\* the call environment.get_current_version() and the version it returned
GetCurrentVersion(current) ==
    [op |-> "get_current_version", env |-> environment, returned |-> current]

\* a check of the answer that never returns
ReturnsOnNo_never(answer) == FALSE

\* `answer == QtGui.QMessageBox.No`
ReturnsOnNo(answer) == answer = "No"

\* description, published: the description text and the publish check box;
\* found: the factory knows the environment named in the combo box;
\* current: environment.get_current_version();
\* answer: the answer to 'Saving under different Task'
save_as_pushButton_clicked ==
    /\ Clicked("save_as_pushButton", "save_as_pushButton_clicked")
    /\ IF get_new_version_ends = "ValueError" THEN SaveAsQuits(<<"ValueError">>, <<>>)
       ELSE IF get_new_version_ends = "None" THEN SaveAsQuits(<<>>, <<>>)
       ELSE IF NotALeaf(get_task) THEN SaveAsQuits(<<"Please select a leaf task!">>, <<>>)
       ELSE \E description \in Descriptions, published \in BOOLEAN :
              LET new_version == get_new_version(committed, description, published)
              IN  IF environment = NoEnv
                  THEN \E found \in BOOLEAN :
                          IF ~found THEN SaveAsQuits(<<>>, <<>>)
                          ELSE CallSaveAs(new_version, env_names[environment_comboBox],
                                          TRUE, <<>>, <<>>)
                  ELSE \E current \in OpenVersions :
                          LET before == <<GetCurrentVersion(current)>>
                          IN  IF current # 0 /\ committed[current].task # new_version.task
                              THEN \E answer \in {"Yes", "No"} :
                                      LET asked == <<"Saving under different Task", answer>>
                                      IN  IF ReturnsOnNo(answer)
                                          THEN SaveAsQuits(asked, before)
                                          ELSE CallSaveAs(new_version, environment, FALSE,
                                                          asked, before)
                              ELSE CallSaveAs(new_version, environment, FALSE, <<>>,
                                              before)
    /\ pre' = committed
    /\ Frame
    /\ UNCHANGED <<thumbnails, selected, repr_as_separate_takes, show_published_only,
                   version_count, chosen_version>>

ExportAs(description, published) ==
    /\ LET op == "export_as_pushButton_clicked"
           new_version == get_new_version(committed, description, published)
       IN  IF get_new_version_ends # "Version"
           THEN last' = Report(op, 0, <<>>, <<>>)
           ELSE IF NotALeaf(new_version.task)
           THEN last' = Report(op, 0, <<"Please select a leaf task!">>, <<>>)
           ELSE IF environment # NoEnv
           THEN last' = Report(op, 0, <<"has been exported correctly!">>,
                               <<EnvCall("export_as", environment, new_version)>>)
           ELSE last' = Report(op, 0, <<>>, <<>>)
    /\ pre' = committed
    /\ Frame
    /\ UNCHANGED <<committed, thumbnails, selected, take_names, current_take_name,
                   repr_as_separate_takes, show_published_only, version_count, table,
                   clipboard, chosen_version, closed>>

export_as_pushButton_clicked ==
    /\ Clicked("export_as_pushButton", "export_as_pushButton_clicked")
    /\ \E description \in Descriptions, published \in BOOLEAN :
           ExportAs(description, published)

\* the user picks an entry of environment_comboBox
environment_comboBox_activated(index) ==
    /\ isVisible
    /\ "environment_comboBox" \notin Hidden
    /\ index # environment_comboBox
    /\ environment_comboBox' = index
    /\ pre' = committed
    /\ last' = Quiet
    /\ Step
    /\ UNCHANGED <<mode, environment, logged_in_user, committed, thumbnails, selected,
                   take_names, current_take_name, repr_as_separate_takes,
                   show_published_only, version_count, table, clipboard,
                   chosen_version, closed, shown>>

-----------------------------------------------------------------------------
(* MainDialog: Reference *)

\* the versions whose take names look like a representation of the take:
\* Version.take_name.ilike(previous_version.take_name + '@%')
all_reprs(db, previous_version) ==
    {i \in DOMAIN db :
        /\ db[i].task = db[previous_version].task
        /\ ILikePrefix(db[i].take_name,
                       db[previous_version].take_name \o <<repr_separator>>)}

\* the latest version of the representation repr_name of the take, 0 if none:
\* ilike('%take@repr_name%'), order_by(version_number.desc()).first()
repr_version(db, previous_version, repr_name) ==
    LET repr_str == db[previous_version].take_name \o <<repr_separator>> \o repr_name
        found == {i \in DOMAIN db :
                     /\ db[i].task = db[previous_version].task
                     /\ ILikeContains(db[i].take_name, repr_str)}
    IN  IF found = {} THEN 0 ELSE Head(OrderByVersionNumberDesc(db, found))

\* the buttons of the 'Which Repr.?' box that carry a version, as
\* <<text, repr_version>>
ReprButtons(db, previous_version) ==
    {<<Base, previous_version>>}
    \cup {<<representations[k], repr_version(db, previous_version, representations[k])>> :
            k \in {j \in DOMAIN representations :
                      repr_version(db, previous_version, representations[j]) # 0}}

\* the version reference_pushButton_clicked hands to environment.reference
\* when the user clicks `button` (a button of ReprButtons, or the cancel
\* button): 0 if none is handed over
VersionToReference(db, previous_version, button) ==
    IF all_reprs(db, previous_version) = {} THEN previous_version
    ELSE IF button[1] = Cancel THEN 0
    ELSE button[2]

reference_pushButton_clicked ==
    /\ Clicked("reference_pushButton", "reference_pushButton_clicked")
    /\ LET op == "reference_pushButton_clicked"
           previous_version == current_version(table)
       IN  IF previous_version = 0    \* None.is_published raises AttributeError
           THEN last' = Report(op, 0, <<>>, <<>>)
           ELSE
              IF ~committed[previous_version].is_published
              THEN last' = Report(op, previous_version,
                                  <<"Referencing un-published versions">>, <<>>)
              ELSE IF environment = NoEnv
              THEN last' = Report(op, previous_version, <<>>, <<>>)
              ELSE \E button \in ReprButtons(committed, previous_version) \cup {<<Cancel, 0>>} :
                      LET v == VersionToReference(committed, previous_version, button)
                      IN  IF v = 0
                          THEN last' = Report(op, previous_version, <<"Which Repr.?">>, <<>>)
                          ELSE last' = Report(op, previous_version,
                                              <<"has been referenced correctly!">>,
                                              <<EnvCall("reference", environment,
                                                        committed[v])>>)
    /\ pre' = committed
    /\ Frame
    /\ UNCHANGED <<committed, thumbnails, selected, take_names, current_take_name,
                   repr_as_separate_takes, show_published_only, version_count, table,
                   clipboard, chosen_version, closed>>

-----------------------------------------------------------------------------
(* MainDialog: Open *)

\* what the user has set in representations_comboBox, ref_depth_comboBox
\* (as its index in ref_depth_res) and checkUpdates_checkBox (negated)
OpenOptions ==
    {[representation |-> Base, reference_depth |-> 0, skip_update_check |-> TRUE],
     [representation |-> GPU, reference_depth |-> 1, skip_update_check |-> FALSE]}

\* the reference resolutions environment.open can return
Resolutions == {[create |-> c, update |-> u] : c \in {<<>>, <<1>>}, u \in {<<>>, <<6>>}}

NoResolution == [create |-> <<>>, update |-> <<>>]

\* one call environment.open(version, force, representation=...,
\* reference_depth=..., skip_update_check=...): it raised RuntimeError, or
\* returned the reference resolution `returned`
OpenCall(version, force, options, raised, returned) ==
    [op |-> "open", env |-> environment, version |-> version, force |-> force,
     representation |-> options.representation,
     reference_depth |-> options.reference_depth,
     skip_update_check |-> options.skip_update_check,
     raised |-> raised, returned |-> returned]

\* a second call that does not force the open
OpenAgain_unforced(old_version, options, returned) ==
    OpenCall(old_version, FALSE, options, FALSE, returned)

\* the call made after the user has answered 'Yes'; with force = True the
\* environment opens the file whatever the state of the scene
OpenAgain(old_version, options, returned) ==
    OpenCall(old_version, TRUE, options, FALSE, returned)

\* a check of the reference resolution that looks at 'create' only
NeedsVersionUpdater_create_only(reference_resolution) ==
    reference_resolution.create # <<>>

\* reference_resolution['create'] or reference_resolution['update']
NeedsVersionUpdater(reference_resolution) ==
    reference_resolution.create # <<>> \/ reference_resolution.update # <<>>

\* version_updater.MainDialog(reference_resolution=...).exec_()
VersionUpdaterExec(reference_resolution) ==
    [op |-> "version_updater.exec_", reference_resolution |-> reference_resolution]

\* self.close()
CloseCall == [op |-> "close"]

\* the end of open_pushButton_clicked once environment.open has returned
AfterOpen(old_version, msgs, calls, reference_resolution) ==
    /\ last' = Report("open_pushButton_clicked", old_version, msgs,
                      calls
                      \o (IF NeedsVersionUpdater(reference_resolution)
                          THEN <<VersionUpdaterExec(reference_resolution)>>
                          ELSE <<>>)
                      \o <<CloseCall>>)
    /\ closed' = TRUE

open_pushButton_clicked ==
    /\ Clicked("open_pushButton", "open_pushButton_clicked")
    /\ LET op == "open_pushButton_clicked"
           old_version == current_version(table)
       IN  IF environment = NoEnv
           THEN /\ last' = Report(op, old_version, <<>>, <<CloseCall>>)
                /\ closed' = TRUE
           ELSE \E options \in OpenOptions, raised \in BOOLEAN :
                   IF ~raised
                   THEN \E returned \in Resolutions :
                           AfterOpen(old_version, <<>>,
                                     <<OpenCall(old_version, FALSE, options, FALSE,
                                                returned)>>,
                                     returned)
                   ELSE LET first == OpenCall(old_version, FALSE, options, TRUE,
                                              NoResolution)
                        IN  \E answer \in {"Yes", "No"} :
                               IF answer = "Yes"
                               THEN \E returned \in Resolutions :
                                       AfterOpen(old_version, <<"RuntimeError", answer>>,
                                                 <<first,
                                                   OpenAgain(old_version, options, returned)>>,
                                                 returned)
                               ELSE /\ last' = Report(op, old_version,
                                                      <<"RuntimeError", answer>>, <<first>>)
                                    /\ closed' = closed
    /\ pre' = committed
    /\ Frame
    /\ UNCHANGED <<committed, thumbnails, selected, take_names, current_take_name,
                   repr_as_separate_takes, show_published_only, version_count, table,
                   clipboard, chosen_version>>

-----------------------------------------------------------------------------
(* MainDialog: restore_ui *)

\* a select_version that never makes a row current
select_version_nowhere(t, version) == t

\* VersionsTableWidget.select_version: the first row that holds the version
\* is made the current one; without such a row nothing is selected
select_version(t, version) ==
    LET rows == {i \in DOMAIN t.versions : t.versions[i] = version}
    IN  IF rows = {} THEN t
        ELSE [t EXCEPT !.currentRow = (CHOOSE i \in rows : \A j \in rows : i <= j) - 1]

\* the current_take_name setter of TakesListWidget: the item with exactly
\* that text is made the current one, if there is one
TakesListWidget_set_current_take_name(names, current, take_name) ==
    IF take_name \in Range(names) THEN take_name ELSE current

\* ExternalEnvFactory.get_env(name): the external environment of that name;
\* ValueError (here NoEnv) for any other name
get_env(name) == IF name \in Range(env_names) THEN name ELSE NoEnv

\* environment_comboBox.findText(text, MatchContains): the index, from 0, of
\* the first entry that contains the text, -1 when there is none; the entries
\* are the names of env_names, formatted '%n (%e)'
findText(text) ==
    LET hits == {i \in DOMAIN env_names : env_names[i] = text}
    IN  IF hits = {} THEN -1
        ELSE (CHOOSE i \in hits : \A j \in hits : i <= j) - 1

\* environment_comboBox after `if index: setCurrentIndex(index)`, for a
\* version created with created_with; the index of the model counts from 1
RestoredEnvironmentIndex(current_index, created_with) ==
    LET env == get_env(created_with)
    IN  IF env = NoEnv THEN current_index
        ELSE LET index == findText(env)
             IN  IF index # 0 THEN index + 1 ELSE current_index

\* the test `version.task.project.active` and what it gave
ProjectActive(active) == [op |-> "version.task.project.active", returned |-> active]

\* the call find_and_select_entity_item_in_treeView(task, tasks_treeView)
\* and whether it returned an item
FindAndSelect(task, found) ==
    [op |-> "find_and_select_entity_item_in_treeView", task |-> task,
     returned |-> found]

\* the takes list and the table when tasks_treeView_changed has run for the
\* Task `task`, with `takes` what the query and the sort gave
TakesAndTableOf(db, task, takes) ==
    LET w == TakesListWidget_set_take_names(takes)
    IN  [take_names |-> w.take_names,
         current_take_name |-> w.current_take_name,
         table |-> update_previous_versions_tableWidget(
                       table, db, task, w.current_take_name,
                       show_published_only, version_count)]

\* restore_ui(version); active: the version's project is active; found: the
\* item of the version's task is in the tree (an item that is selected is)
restore_ui(version) ==
    IF version = 0
    THEN /\ last' = Report("restore_ui", version, <<>>, <<>>)
         /\ UNCHANGED <<selected, take_names, current_take_name, table,
                        environment_comboBox>>
    ELSE \E active \in BOOLEAN :
      IF ~active
      THEN /\ last' = Report("restore_ui", version, <<>>, <<ProjectActive(active)>>)
           /\ UNCHANGED <<selected, take_names, current_take_name, table,
                          environment_comboBox>>
      ELSE LET task == committed[version].task
               take_name == committed[version].take_name
           IN  \E found \in {f \in BOOLEAN : task = selected => f} :
                 /\ last' = Report("restore_ui", version, <<>>,
                                   <<ProjectActive(active), FindAndSelect(task, found)>>)
                 /\ IF ~found
                    THEN \* selectionModel().clearSelection()
                         /\ selected' = NoSelection
                         /\ UNCHANGED <<take_names, current_take_name, table,
                                        environment_comboBox>>
                    ELSE \E takes \in TakesHanded(committed, task, repr_as_separate_takes) :
                           LET tree == IF task = selected
                                       THEN [take_names |-> take_names,
                                             current_take_name |-> current_take_name,
                                             table |-> table]
                                       ELSE TakesAndTableOf(committed, task, takes)
                               take == TakesListWidget_set_current_take_name(
                                           tree.take_names, tree.current_take_name,
                                           take_name)
                               versions == IF take = tree.current_take_name
                                           THEN tree.table
                                           ELSE update_previous_versions_tableWidget(
                                                    tree.table, committed, task, take,
                                                    show_published_only, version_count)
                           IN  /\ selected' = task
                               /\ take_names' = tree.take_names
                               /\ current_take_name' = take
                               /\ table' = select_version(versions, version)
                               /\ environment_comboBox' =
                                      IF environment = NoEnv
                                      THEN RestoredEnvironmentIndex(
                                               environment_comboBox,
                                               committed[version].created_with)
                                      ELSE environment_comboBox

\* what EnvironmentBase.get_version_from_full_path returns for the paths
\* typed in: no version (0), a version of the current take of leaf1, one of
\* a representation take, the oldest version of leaf3, and the version of
\* leaf2 created with the first external environment
PathVersions == {0, 2, 3, 6, 9}

\* find_from_path_pushButton_clicked: the path of find_from_path_lineEdit is
\* the path of some version, or of none (0)
find_from_path_pushButton_clicked ==
    /\ Clicked("find_from_path_pushButton", "find_from_path_pushButton_clicked")
    /\ \E version \in PathVersions : restore_ui(version)
    /\ pre' = committed
    /\ Step
    /\ UNCHANGED <<mode, environment, logged_in_user, shown, committed, thumbnails,
                   repr_as_separate_takes, show_published_only, version_count,
                   clipboard, chosen_version, closed>>

-----------------------------------------------------------------------------
(* MainDialog: show *)

\* an `if not logged_in_user` that never finds the user missing
HasUser_always(user) == TRUE

\* `logged_in_user` is not None
HasUser(user) == user # NoUser

\* show(): the dialog is shown if there is a logged-in user, else closed
show ==
    /\ ~shown
    /\ ~closed
    /\ IF ~HasUser(logged_in_user)
       THEN closed' = TRUE /\ shown' = shown
       ELSE shown' = TRUE /\ closed' = closed
    /\ pre' = committed
    /\ last' = Report("show", 0, <<>>, <<>>)
    /\ UNCHANGED <<mode, environment, logged_in_user, committed, thumbnails, selected,
                   take_names, current_take_name, repr_as_separate_takes,
                   show_published_only, version_count, table, clipboard,
                   chosen_version, environment_comboBox, steps>>

Init ==
    /\ mode \in {0, 1}
    /\ environment \in {NoEnv, HostEnv}
    /\ logged_in_user \in Users \cup {NoUser}
    /\ committed = InitialVersions
    /\ thumbnails = InitialThumbnails
    /\ selected = NoSelection
    /\ take_names = <<Main>>
    /\ current_take_name = Main
    /\ repr_as_separate_takes = FALSE
    /\ show_published_only = FALSE
    /\ version_count = MaxCount
    /\ table = [versions |-> <<>>, rowCount |-> 0, currentRow |-> -1]
    /\ clipboard = NoText
    /\ chosen_version = 0
    /\ closed = FALSE
    /\ shown = FALSE
    /\ environment_comboBox = 1
    /\ steps = 0
    /\ pre = InitialVersions
    /\ last = Quiet

Next ==
    \/ show
    \/ \E e \in Entities : SelectTreeItem(e)
    \/ repr_as_separate_takes_checkBox_stateChanged
    \/ \E take \in TakeInputs : takes_listWidget_changed(take)
    \/ show_published_only_checkBox_stateChanged
    \/ \E count \in 0..MaxCount : version_count_spinBox_valueChanged(count)
    \/ \E row \in 0..MaxCount : SelectRow(row)
    \/ \E row \in 1..MaxCount : Publish(row)
    \/ \E row \in 1..MaxCount : UnPublish(row)
    \/ \E row \in 1..MaxCount, ok \in BOOLEAN, d \in Descriptions :
           ChangeDescription(row, ok, d)
    \/ save_as_pushButton_clicked
    \/ export_as_pushButton_clicked
    \/ \E index \in DOMAIN env_names : environment_comboBox_activated(index)
    \/ reference_pushButton_clicked
    \/ open_pushButton_clicked
    \/ find_from_path_pushButton_clicked
    \/ chose_pushButton_click
    \/ \E row \in 0..MaxCount : cellDoubleClicked_chose(row)
    \/ close
    \/ \E answer \in {"Yes", "No"} : clear_thumbnail_push_button_clicked(answer)

Spec == Init /\ [][Next]_vars

-----------------------------------------------------------------------------
(* The claims *)

\* the user is in a group whose name is a power-user group name
InPowerGroup(user) == groups(user) \cap power_users_group_names # {}

\* the database `db` with version v published or not by `user`, all else as it was
WithPublished(db, v, published, user) ==
    [i \in DOMAIN db |->
        IF i = v THEN [db[i] EXCEPT !.is_published = published, !.updated_by = user]
        ELSE db[i]]

\* C1: 'Publish' marks the version published, updated by the logged-in user,
\* and commits it, exactly when the logged-in user is a responsible of the
\* version's task or is in a power-user group; for any other user an error
\* is shown and the database stays as it was.
C1_PublishNeedsResponsibleOrPowerUser ==
    last.op = "Publish" =>
        IF logged_in_user \in responsible(pre[last.v].task) \/ InPowerGroup(logged_in_user)
        THEN /\ committed = WithPublished(pre, last.v, TRUE, logged_in_user)
             /\ last.msgs = <<>>
        ELSE /\ last.msgs # <<>>
             /\ committed = pre

\* a responsible who is no power user has published a version
C1_Witness ==
    /\ last.op = "Publish"
    /\ ~InPowerGroup(logged_in_user)
    /\ ~pre[last.v].is_published
    /\ committed[last.v].is_published
    /\ committed[last.v].updated_by = logged_in_user

\* some version has v among its inputs
UsedByAnother(db, v) == \E i \in DOMAIN db : v \in db[i].inputs

\* C2: 'Un-Publish' on a version that some version has among its inputs shows
\* the error that the version is referenced and leaves it published and the
\* database as it was, whoever the logged-in user is.
C2_UsedVersionStaysPublished ==
    last.op = "Un-Publish" /\ UsedByAnother(pre, last.v) =>
        /\ last.msgs = <<"This version is referenced">>
        /\ committed = pre
        /\ committed[last.v].is_published

\* a user with no right on the task was told that the version is referenced,
\* not that the right is missing
C2_Witness ==
    /\ last.op = "Un-Publish"
    /\ UsedByAnother(pre, last.v)
    /\ logged_in_user \notin responsible(pre[last.v].task) \cup resources(pre[last.v].task)
    /\ ~InPowerGroup(logged_in_user)
    /\ last.msgs = <<"This version is referenced">>

C4_ReadOnlyModeWritesNothing ==
    mode = 1 => committed = InitialVersions /\ thumbnails = InitialThumbnails

\* C5: in Read-Only mode a click on 'Choose' with a version selected in the
\* table sets chosen_version to it and closes the dialog.
C5_ChooseButtonChooses ==
    /\ mode = 1
    /\ last.op = "click chose_pushButton"
    /\ table.currentRow >= 0
    /\ last.v # 0
    => chosen_version = last.v /\ closed

\* C6: every version handed to environment.reference is published.
C6_OnlyPublishedVersionsAreReferenced ==
    \A k \in DOMAIN last.calls :
        last.calls[k].op = "reference" => last.calls[k].version.is_published

\* environment.save_as was called in the last handler and returned
SaveAsReturned ==
    /\ last.op = "save_as_pushButton_clicked"
    /\ last.calls # <<>>
    /\ last.calls[Len(last.calls)].op = "save_as"
    /\ "RuntimeError" \notin Range(last.msgs)

\* the path of version v with nothing to normalise left in it
NormalPath(v) == <<"srv", v.task>> \o v.take_name \o <<VersionNames[v.version_number]>>

\* C7: when environment.save_as has returned, without an environment it was
\* the save_as of the environment named in the combo box, the clipboard
\* holds the normalised path of the new version and the dialog is open with
\* the takes of the task; with a host environment the clipboard is untouched
\* and the dialog is closed.
C7_SaveAsWithoutEnvironmentCopiesThePath ==
    SaveAsReturned =>
        LET call == last.calls[Len(last.calls)]
        IN  /\ Len(SelectSeq(last.calls, LAMBDA c : c.op = "save_as")) = 1
            /\ call.version.task = selected
            /\ call.version.created_by = logged_in_user
            /\ IF environment = NoEnv
               THEN /\ call.env = env_names[environment_comboBox]
                    /\ clipboard = NormalPath(call.version)
                    /\ ~closed
                    /\ call.version.take_name \in Range(take_names)
               ELSE /\ call.env = environment
                    /\ clipboard = NoText
                    /\ closed

\* Save As has run without an environment and the path is on the clipboard
C7_Witness ==
    /\ SaveAsReturned
    /\ environment = NoEnv
    /\ clipboard # NoText
    /\ ~closed

\* C8: Save As and Export As on a task that is no leaf show an error, call no
\* environment operation and commit nothing; with nothing or a Project
\* selected they do nothing at all.
C8_SaveAsAndExportAsNeedALeafTask ==
    [][ /\ steps' # steps
        /\ last'.op \in {"save_as_pushButton_clicked", "export_as_pushButton_clicked"}
        => /\ selected \in Tasks /\ ~is_leaf(selected) =>
                 /\ last'.msgs # <<>>
                 /\ last'.calls = <<>>
                 /\ UNCHANGED <<committed, clipboard, closed>>
           /\ selected = NoSelection \/ selected \in Projects =>
                 /\ last'.msgs = <<>>
                 /\ last'.calls = <<>>
                 /\ UNCHANGED <<committed, thumbnails, selected, take_names,
                                current_take_name, table, clipboard,
                                chosen_version, closed, environment_comboBox>>
      ]_vars

\* Save As was refused on the container task
C8_Witness ==
    /\ last.op = "save_as_pushButton_clicked"
    /\ selected = "cont"
    /\ last.msgs = <<"Please select a leaf task!">>

\* C9: when environment.save_as has returned, the new Version is a row of the
\* database afterwards if the file exists; if it does not, an error is shown
\* and the database is as it was.
C9_SavedOnlyIfTheFileExists ==
    SaveAsReturned =>
        /\ last.exists \in {"yes", "no"}
        /\ last.exists = "yes" =>
              /\ Len(committed) = Len(pre) + 1
              /\ SubSeq(committed, 1, Len(pre)) = pre
              /\ [committed[Len(committed)] EXCEPT !.created_with = ""]
                     = last.calls[Len(last.calls)].version
              /\ "Something went wrong" \notin Range(last.msgs)
        /\ last.exists = "no" =>
              /\ "Something went wrong" \in Range(last.msgs)
              /\ committed = pre

\* save_as returned and left no file
C9_Witness ==
    /\ SaveAsReturned
    /\ last.exists = "no"
    /\ committed = pre

\* the versions of the selected task and the current take, the published
\* ones only if asked for; none unless a leaf task and a take are selected
Matching ==
    IF selected \in Tasks /\ ~is_container(selected) /\ current_take_name # <<>>
    THEN {i \in DOMAIN committed :
             /\ committed[i].task = selected
             /\ committed[i].take_name = current_take_name
             /\ show_published_only => committed[i].is_published}
    ELSE {}

\* the versions of Matching with the version_count highest version numbers
Latest ==
    {i \in Matching :
        Cardinality({j \in Matching :
                        committed[j].version_number > committed[i].version_number})
            < version_count}

\* C10: after update_previous_versions_tableWidget the table holds exactly
\* the versions of the selected task and current take with the version_count
\* highest version numbers (the published ones only, if asked for), in
\* ascending version number; it is empty when no task, a Project or a
\* container is selected or the take name is empty.
C10_TableShowsTheLatestVersions ==
    last.op = "update_previous_versions_tableWidget" =>
        /\ Range(table.versions) = Latest
        /\ Len(table.versions) = Cardinality(Latest)
        /\ \A i, j \in DOMAIN table.versions :
              i < j => committed[table.versions[i]].version_number
                           < committed[table.versions[j]].version_number

\* the table was refreshed, there are more versions than it may show and it
\* shows more than one
C10_Witness ==
    /\ last.op = "update_previous_versions_tableWidget"
    /\ Cardinality(Matching) > version_count
    /\ Len(table.versions) > 1

\* the distinct take names of the versions of the selected task, those of a
\* representation left out unless they are asked for
ExpectedTakes ==
    {name \in {committed[i].take_name :
                  i \in {j \in DOMAIN committed : committed[j].task = selected}} :
        repr_as_separate_takes \/ \A k \in DOMAIN name : name[k] # repr_separator}

\* a take name with every letter in lower case
Folded(name) == [k \in DOMAIN name |-> Lower(name[k])]

C12_ShownOnlyToALoggedInUser ==
    /\ shown => logged_in_user # NoUser
    /\ last.op = "show" =>
          IF logged_in_user = NoUser THEN closed /\ ~shown
          ELSE shown /\ ~closed

\* show() ran with nobody logged in
C12_Witness ==
    /\ last.op = "show"
    /\ logged_in_user = NoUser
    /\ closed
    /\ ~shown

\* the calls of environment.open the last handler made, in order
Opens == SelectSeq(last.calls, LAMBDA c : c.op = "open")

\* the last handler ended with self.close()
EndedWithClose ==
    /\ last.calls # <<>>
    /\ last.calls[Len(last.calls)] = [op |-> "close"]
    /\ closed

UpdaterRuns ==
    {k \in DOMAIN last.calls : last.calls[k].op = "version_updater.exec_"}

\* the calls of environment.open of the last handler that returned
ReturnedOpens == SelectSeq(last.calls, LAMBDA c : c.op = "open" /\ ~c.raised)

\* C14: the version-updater dialog is run exactly when environment.open has
\* returned a reference resolution with a non-empty 'create' or a non-empty
\* 'update' list; it is run once, with that resolution, after the open and
\* before the dialog is closed.
C14_VersionUpdaterRunsWhenNeeded ==
    last.op = "open_pushButton_clicked" =>
        IF ReturnedOpens = <<>> THEN UpdaterRuns = {}
        ELSE LET r == ReturnedOpens[Len(ReturnedOpens)].returned
             IN  /\ UpdaterRuns # {} <=> (r.create # <<>> \/ r.update # <<>>)
                 /\ Cardinality(UpdaterRuns) <= 1
                 /\ \A k \in UpdaterRuns :
                       /\ last.calls[k].reference_resolution = r
                       /\ \A j \in 1..(k - 1) : last.calls[j].op = "open"
                       /\ \E j \in (k + 1)..Len(last.calls) : last.calls[j].op = "close"

\* the version updater ran for a resolution that has something to update and
\* nothing to create
C14_Witness ==
    /\ last.op = "open_pushButton_clicked"
    /\ UpdaterRuns # {}
    /\ ReturnedOpens # <<>>
    /\ ReturnedOpens[Len(ReturnedOpens)].returned.create = <<>>
    /\ closed

\* the question Save As asks before it saves under another task
DifferentTaskQuestion == "Saving under different Task"

\* C15: Save As with a host environment whose open version belongs to
\* another task than the selected one asks 'Saving under different Task' and
\* calls environment.save_as only after the answer 'Yes'; on 'No' save_as is
\* not called, nothing is committed and the dialog stays open.  The question
\* is asked in no other case.
C15_SaveUnderDifferentTaskNeedsYes ==
    /\ last.op = "save_as_pushButton_clicked"
    /\ environment # NoEnv
    /\ last.calls # <<>>
    => LET current == last.calls[1].returned
           different == current # 0 /\ pre[current].task # selected
           saves == SelectSeq(last.calls, LAMBDA c : c.op = "save_as")
       IN  /\ last.calls[1].op = "get_current_version"
           /\ DifferentTaskQuestion \in Range(last.msgs) <=> different
           /\ different =>
                 /\ Len(last.msgs) >= 2
                 /\ last.msgs[1] = DifferentTaskQuestion
                 /\ last.msgs[2] \in {"Yes", "No"}
                 /\ saves # <<>> => last.msgs[2] = "Yes"
                 /\ last.msgs[2] = "No" =>
                       /\ saves = <<>>
                       /\ committed = pre
                       /\ ~closed
           /\ ~different => Len(saves) = 1

\* the user was asked and said 'No'
C15_Witness ==
    /\ last.op = "save_as_pushButton_clicked"
    /\ environment # NoEnv
    /\ last.msgs = <<DifferentTaskQuestion, "No">>
    /\ last.calls = <<[op |-> "get_current_version", env |-> environment, returned |-> 1]>>
    /\ committed = pre
    /\ ~closed

\* a step that is a run of restore_ui
RestoreStep == steps' # steps /\ last'.op = "restore_ui"

\* restore_ui returned before it had set anything: no version, a project
\* that is not active, or no item for the task in the tree
RestoreQuit == last'.v = 0 \/ \E c \in Range(last'.calls) : c.returned = FALSE

\* restore_ui returned at its first test: no version or no active project
RestoreQuitAtOnce ==
    last'.v = 0 \/ \E c \in Range(last'.calls) :
                      c.op = "version.task.project.active" /\ c.returned = FALSE

\* what restore_ui can change
RestoreUnchanged(selection_too) ==
    /\ selection_too => selected' = selected
    /\ UNCHANGED <<take_names, current_take_name, table, environment_comboBox,
                   committed, thumbnails, clipboard, chosen_version, closed>>

\* the row of the table that is current holds version v
RowOf(t, v) == t.currentRow >= 0 /\ t.currentRow < Len(t.versions)
               /\ t.versions[t.currentRow + 1] = v

\* C16 as stated: restore_ui(version) changes nothing when version is None,
\* when the version's project is not active or when the version's task is
\* not found in the tasks tree; otherwise it selects the version's task,
\* makes the version's take the current take and selects the version's row
\* in the previous-versions table.
C16_AsStated ==
    [][RestoreStep =>
          IF RestoreQuit THEN RestoreUnchanged(TRUE)
          ELSE /\ selected' = committed[last'.v].task
               /\ current_take_name' = committed[last'.v].take_name
               /\ RowOf(table', last'.v)]_vars

\* C16: restore_ui(version) changes nothing when version is None or the
\* version's project is not active; when the version's task is not found in
\* the tasks tree it clears the selection of the tree and changes nothing
\* else; otherwise it selects the version's task, makes the version's take
\* the current take if the takes list holds it, and selects the version's
\* row if the previous-versions table then holds the version.
C16_RestoreUi ==
    [][RestoreStep =>
          IF RestoreQuitAtOnce THEN RestoreUnchanged(TRUE)
          ELSE IF RestoreQuit
          THEN selected' = NoSelection /\ RestoreUnchanged(FALSE)
          ELSE LET v == last'.v
               IN  /\ selected' = committed[v].task
                   /\ committed[v].take_name \in Range(take_names')
                         => current_take_name' = committed[v].take_name
                   /\ committed[v].take_name \notin Range(take_names')
                         => current_take_name' # committed[v].take_name
                   /\ v \in Range(table'.versions) => RowOf(table', v)
                   /\ UNCHANGED <<committed, thumbnails, clipboard, chosen_version,
                                  closed>>]_vars

\* restore_ui has selected the task, the take and the row of the version of
\* leaf2 in take alt
C16_Witness ==
    /\ last.op = "restore_ui"
    /\ last.v = 9
    /\ last.calls = <<ProjectActive(TRUE), FindAndSelect("leaf2", TRUE)>>
    /\ selected = "leaf2"
    /\ current_take_name = alt
    /\ RowOf(table, 9)

\* C17: without a host environment, a restore_ui that gets as far as the
\* combo box makes the entry of the environment the version was created
\* with the current one whenever the combo box has such an entry, the first
\* one included, and leaves the current index alone when it has none or the
\* name is the name of no environment.
C17_ComboFollowsTheVersionsEnvironment ==
    [][RestoreStep /\ environment = NoEnv /\ ~RestoreQuit =>
          LET created_with == committed[last'.v].created_with
              entries == {i \in DOMAIN env_names : env_names[i] = created_with}
          IN  IF entries # {}
              THEN environment_comboBox' \in entries
              ELSE environment_comboBox' = environment_comboBox]_vars

\* C18: current_version is the version held at the current row, and None
\* (0) when no row is current (row -1) or the row is outside the list of
\* versions, whatever the list holds.
C18_CurrentVersionIsTheSelectedRow ==
    current_version(table) =
        IF table.currentRow >= 0 /\ table.currentRow < Len(table.versions)
        THEN table.versions[table.currentRow + 1]
        ELSE 0

====
